---- MODULE Spec2Model ----
(***************************************************************************)
(* Tag reconciliation of the recipe API: RecipeSerializer.create and       *)
(* RecipeSerializer.update of app/recipe/serializers.py, over the Tag,     *)
(* Recipe and Recipe-Tag tables they read and write through the ORM.       *)
(*                                                                         *)
(* A request is executed as a sequence of ORM calls.  Step is one ORM call *)
(* of one request.  Spec and SpecFields run every request to its end       *)
(* before the next one starts (one worker); SpecConc interleaves the ORM   *)
(* calls of the requests of several workers.  No transaction spans the     *)
(* calls of a request: each ORM call takes effect when it is made.         *)
(***************************************************************************)
EXTENDS Integers, Sequences, FiniteSets, Bags, TLC

VARIABLES
    tags,       \* the Tag table: rows [id, user, name]
    recipes,    \* the Recipe table: rows [id, user, title, link]
    through,    \* the Recipe-Tag table (recipe.tags): a bag of rows [recipe, tag]
    last,       \* Spec: the request handled by the last step and its outcome
    workers,    \* SpecConc: each worker's request in progress
    started     \* SpecConc: the number of requests started so far

vars == <<tags, recipes, through, last, workers, started>>

----------------------------------------------------------------------------
(* Bounds and input sets *)

MaxLen == 2
MaxRecipes == 2
MaxConcLen == 1
MaxRequests == 2

Users == {"user", "other"}
Names == {"breakfast", "lunch"}
ScalarFields == {"title", "link"}
Values == {"v1", "v2"}
Workers == {"w1", "w2"}

\* the tag names a user's requests carry: the second user shares one name
\* with the first
NamesOf(user) == IF user = "user" THEN Names ELSE {"breakfast"}

\* a request's tag list: a sequence of tag names, repetitions included
TagLists(user, maxLen) == UNION {[1..n -> NamesOf(user)] : n \in 0..maxLen}

\* the tags part of validated_data: no tags key at all, or the list
NoTags == [hasTags |-> FALSE, tags |-> <<>>]

TagsInputs(user, maxLen) ==
    {[hasTags |-> TRUE, tags |-> l] : l \in TagLists(user, maxLen)}
        \cup {NoTags}

\* the scalar part of validated_data: POST and PUT carry every field,
\* PATCH any subset of them
FullData == [ScalarFields -> Values]
PartialData == UNION {[S -> Values] : S \in SUBSET ScalarFields}

\* the scalar part of the requests that vary the tags only
DefaultData == [f \in ScalarFields |-> "v1"]
NoData == [f \in {} |-> "v1"]

\* the tags part of the requests that vary the scalar fields
FieldsTagsInputs ==
    {NoTags, [hasTags |-> TRUE, tags |-> <<>>],
     [hasTags |-> TRUE, tags |-> <<"breakfast">>]}

Range(s) == {s[i] : i \in 1..Len(s)}

----------------------------------------------------------------------------
(* The tables *)

NewId(table) == Cardinality(table) + 1

\* recipe.tags.all(): the Tag rows the relation joins to the recipe
TagsOf(thr, tagTable, rid) ==
    {t \in tagTable : BagIn([recipe |-> rid, tag |-> t.id], thr)}

RecipeRow(recipeTable, rid) == CHOOSE r \in recipeTable : r.id = rid

\* Tag.objects.get(user=recipe.user, **tag): the rows the lookup matches
TagLookupAnyUser(tagTable, user, tag) == {t \in tagTable : t.name = tag}

TagLookup(tagTable, user, tag) ==
    {t \in tagTable : t.user = user /\ t.name = tag}

\* the Tag table's uniqueness of (user, name): TRUE when inserting the row
\* would break it, and the insert raises IntegrityError
NoUniqueConstraint(tagTable, user, name) == FALSE

UniqueViolation(tagTable, user, name) ==
    \E t \in tagTable : t.user = user /\ t.name = name

\* Tag.objects.create(user=recipe.user, **tag)
TagInsert(tagTable, user, name) ==
    tagTable \cup {[id |-> NewId(tagTable), user |-> user, name |-> name]}

\* recipe.tags.add(tag_obj): inserts the row unless the relation holds it
add_again(thr, rid, tid) ==
    thr (+) SetToBag({[recipe |-> rid, tag |-> tid]})

add(thr, rid, tid) ==
    IF BagIn([recipe |-> rid, tag |-> tid], thr)
    THEN thr
    ELSE thr (+) SetToBag({[recipe |-> rid, tag |-> tid]})

\* instance.tags.clear(): deletes the relation's rows of this recipe
clear_skipped(db, rid) == db

clear_every_recipe(db, rid) == [db EXCEPT !.through = EmptyBag]

clear_deleting_tags(db, rid) ==
    [db EXCEPT
        !.tags = db.tags \ TagsOf(db.through, db.tags, rid),
        !.through = [row \in {x \in DOMAIN db.through : x.recipe # rid}
                        |-> db.through[row]]]

clear(db, rid) ==
    [db EXCEPT
        !.through = [row \in {x \in DOMAIN db.through : x.recipe # rid}
                        |-> db.through[row]]]

\* Recipe.objects.create(**validated_data)
RecipeInsert(recipeTable, user, data) ==
    recipeTable \cup {[id |-> NewId(recipeTable), user |-> user,
                       title |-> data["title"], link |-> data["link"]]}

\* for key, value in validated_data.items(): setattr(instance, key, value)
setattrs(inst, data) ==
    [id |-> inst.id, user |-> inst.user,
     title |-> IF "title" \in DOMAIN data THEN data["title"] ELSE inst.title,
     link |-> IF "link" \in DOMAIN data THEN data["link"] ELSE inst.link]

\* instance.save(): writes the instance's fields over its row
save(recipeTable, inst) ==
    {r \in recipeTable : r.id # inst.id} \cup {inst}

----------------------------------------------------------------------------
(* A request in progress.  pc names the ORM call the request makes next:   *)
(*   insert_recipe  create: Recipe.objects.create                          *)
(*   pop            update: validated_data.pop("tags", None)               *)
(*   clear          update: instance.tags.clear()                          *)
(*   get            get_or_create: the lookup of the tag                   *)
(*   insert         get_or_create: the insert after a lookup found no row  *)
(*   reget          get_or_create: the lookup after IntegrityError         *)
(*   add            recipe.tags.add(tag_obj)                               *)
(*   save           update: setattr of each field and instance.save()      *)
(*   done           the handler returned or raised (status)                *)

NoRow == [id |-> 0, user |-> "", title |-> "", link |-> ""]

Idle ==
    [pc |-> "done", op |-> "none", method |-> "", status |-> "idle",
     hasTags |-> FALSE, tags |-> <<>>, data |-> <<>>,
     todo |-> <<>>, inst |-> NoRow, tag_obj |-> 0]

\* tags = TagSerializer(many=True, required=True)
TagsRequired == TRUE

\* the serializer's validation of the tags field; PATCH validates with
\* partial=True, which requires no field
is_valid(method, hasTags) ==
    hasTags \/ ~TagsRequired \/ method = "PATCH"

raise(loc) == [loc EXCEPT !.pc = "done", !.status = "error"]

return(loc) == [loc EXCEPT !.pc = "done", !.status = "ok"]

\* for tag in tags: what is left of the list after this tag
remaining_none(todo) == <<>>

remaining(todo) == Tail(todo)

\* the statement after the call of _get_or_create_tags
AfterTags(loc) ==
    IF loc.op = "create" THEN return(loc) ELSE [loc EXCEPT !.pc = "save"]

\* the head of the loop of _get_or_create_tags
ForTag(loc) ==
    IF loc.todo # <<>> THEN [loc EXCEPT !.pc = "get"] ELSE AfterTags(loc)

\* Tag.objects.get_or_create(user=recipe.user, **tag), one query at a time
get_or_create(db, loc) ==
    LET user == loc.inst.user
        name == Head(loc.todo)
        found == TagLookup(db.tags, user, name)
        hit == [loc EXCEPT !.pc = "add",
                           !.tag_obj = (CHOOSE t \in found : TRUE).id]
    IN  CASE loc.pc = "get" ->
                [db |-> db,
                 loc |-> IF Cardinality(found) = 1 THEN hit
                         ELSE IF found = {} THEN [loc EXCEPT !.pc = "insert"]
                         ELSE raise(loc)]
          [] loc.pc = "insert" ->
                IF UniqueViolation(db.tags, user, name)
                THEN [db |-> db, loc |-> [loc EXCEPT !.pc = "reget"]]
                ELSE [db |-> [db EXCEPT !.tags = TagInsert(db.tags, user, name)],
                      loc |-> [loc EXCEPT !.pc = "add",
                                          !.tag_obj = NewId(db.tags)]]
          [] loc.pc = "reget" ->
                [db |-> db,
                 loc |-> IF Cardinality(found) = 1 THEN hit ELSE raise(loc)]

_get_or_create_tags(db, loc) ==
    IF loc.pc = "add"
    THEN [db |-> [db EXCEPT
                    !.through = add(db.through, loc.inst.id, loc.tag_obj)],
          loc |-> ForTag([loc EXCEPT !.todo = remaining(loc.todo),
                                     !.tag_obj = 0])]
    ELSE get_or_create(db, loc)

create(db, loc) ==
    IF loc.pc = "insert_recipe"
    THEN LET table == RecipeInsert(db.recipes, loc.inst.user, loc.data)
         IN  [db |-> [db EXCEPT !.recipes = table],
              loc |-> ForTag([loc EXCEPT
                                !.inst = RecipeRow(table, NewId(db.recipes)),
                                !.todo = loc.tags])]
    ELSE _get_or_create_tags(db, loc)

\* tags = validated_data.pop("tags", None); if tags is not None
tags_defaulted(loc) == TRUE

tags_given(loc) == loc.hasTags

update(db, loc) ==
    CASE loc.pc = "pop" ->
            [db |-> db,
             loc |-> IF tags_given(loc)
                     THEN [loc EXCEPT !.pc = "clear", !.todo = loc.tags]
                     ELSE [loc EXCEPT !.pc = "save"]]
      [] loc.pc = "clear" ->
            [db |-> clear(db, loc.inst.id), loc |-> ForTag(loc)]
      [] loc.pc = "save" ->
            LET inst == setattrs(loc.inst, loc.data)
            IN  [db |-> [db EXCEPT !.recipes = save(db.recipes, inst)],
                 loc |-> return([loc EXCEPT !.inst = inst])]
      [] OTHER -> _get_or_create_tags(db, loc)

\* one ORM call of the request
Step(db, loc) ==
    IF loc.op = "create" THEN create(db, loc) ELSE update(db, loc)

\* the request as the view hands it to the serializer: rejected with 400
\* when it does not validate, else at the first statement of create/update
Begin(op, method, inst, tagsIn, data) ==
    LET req == [Idle EXCEPT !.op = op, !.method = method, !.inst = inst,
                            !.hasTags = tagsIn.hasTags, !.tags = tagsIn.tags,
                            !.data = data, !.status = "pending"]
    IN  IF ~is_valid(method, tagsIn.hasTags)
        THEN [req EXCEPT !.status = "rejected"]
        ELSE [req EXCEPT !.pc = IF op = "create" THEN "insert_recipe" ELSE "pop"]

\* the ways the request can end from s = [db, loc]: it runs to its end, or
\* one of its steps raises a database error instead of executing; what the
\* steps before it wrote stays written
RECURSIVE Run(_)
Run(s) ==
    IF s.loc.pc = "done" THEN {s}
    ELSE {[s EXCEPT !.loc = raise(s.loc)]} \cup Run(Step(s.db, s.loc))

----------------------------------------------------------------------------
(* One worker: every request is handled to its end in one step, and the    *)
(* worker takes the next request once it has sent the response.  Spec      *)
(* varies the tags of the requests, SpecFields their scalar fields.        *)

DB == [tags |-> tags, recipes |-> recipes, through |-> through]

\* what is recorded of a handled request: the request and how it ended
Outcome(loc) ==
    [op |-> loc.op, method |-> loc.method, status |-> loc.status,
     user |-> loc.inst.user, rid |-> loc.inst.id,
     hasTags |-> loc.hasTags, tags |-> loc.tags, data |-> loc.data]

Init ==
    /\ tags = {}
    /\ recipes = {}
    /\ through = EmptyBag
    /\ last = Outcome(Idle)
    /\ workers = [w \in Workers |-> Idle]
    /\ started = 0

Handle(loc) ==
    /\ last.status = "idle"
    /\ \E r \in Run([db |-> DB, loc |-> loc]) :
            /\ tags' = r.db.tags
            /\ recipes' = r.db.recipes
            /\ through' = r.db.through
            /\ last' = Outcome(r.loc)
    /\ UNCHANGED <<workers, started>>

\* POST /recipes/ by an authenticated user
CreateRecipe ==
    \E user \in Users :
        \E tagsIn \in TagsInputs(user, MaxLen) :
            /\ Cardinality(recipes) < MaxRecipes
            /\ Handle(Begin("create", "POST", [NoRow EXCEPT !.user = user],
                            tagsIn, DefaultData))

\* PUT /recipes/{id}/ by the recipe's owner
UpdateRecipe ==
    \E inst \in recipes :
        \E tagsIn \in TagsInputs(inst.user, MaxLen) :
            Handle(Begin("update", "PUT", inst, tagsIn, DefaultData))

\* PATCH /recipes/{id}/ by the recipe's owner
PartialUpdateRecipe ==
    \E inst \in recipes :
        \E tagsIn \in TagsInputs(inst.user, MaxLen) :
            Handle(Begin("update", "PATCH", inst, tagsIn, NoData))

\* the response is sent
Respond ==
    /\ last.status # "idle"
    /\ last' = Outcome(Idle)
    /\ UNCHANGED <<tags, recipes, through, workers, started>>

Next == CreateRecipe \/ UpdateRecipe \/ PartialUpdateRecipe \/ Respond

Spec == Init /\ [][Next]_vars

CreateRecipeFields ==
    \E tagsIn \in FieldsTagsInputs, data \in FullData :
        /\ Cardinality(recipes) < MaxRecipes
        /\ Handle(Begin("create", "POST", [NoRow EXCEPT !.user = "user"],
                        tagsIn, data))

UpdateRecipeFields ==
    \E inst \in recipes, tagsIn \in FieldsTagsInputs, data \in FullData :
        Handle(Begin("update", "PUT", inst, tagsIn, data))

PartialUpdateRecipeFields ==
    \E inst \in recipes, tagsIn \in FieldsTagsInputs, data \in PartialData :
        Handle(Begin("update", "PATCH", inst, tagsIn, data))

NextFields ==
    \/ CreateRecipeFields
    \/ UpdateRecipeFields
    \/ PartialUpdateRecipeFields
    \/ Respond

SpecFields == Init /\ [][NextFields]_vars

----------------------------------------------------------------------------
(* SpecConc: the workers' requests interleave, one ORM call at a time *)

Accept(w, loc) ==
    /\ workers[w].pc = "done"
    /\ started < MaxRequests
    /\ workers' = [workers EXCEPT ![w] = loc]
    /\ started' = started + 1
    /\ UNCHANGED <<tags, recipes, through, last>>

StartCreate(w) ==
    \E user \in Users :
        \E tagsIn \in TagsInputs(user, MaxConcLen) :
            Accept(w, Begin("create", "POST", [NoRow EXCEPT !.user = user],
                            tagsIn, DefaultData))

\* the view loads the instance before it calls update
StartUpdate(w) ==
    \E inst \in recipes :
        \E tagsIn \in TagsInputs(inst.user, MaxConcLen) :
            Accept(w, Begin("update", "PUT", inst, tagsIn, DefaultData))

StartPartialUpdate(w) ==
    \E inst \in recipes :
        \E tagsIn \in TagsInputs(inst.user, MaxConcLen) :
            Accept(w, Begin("update", "PATCH", inst, tagsIn, NoData))

\* the next ORM call of the worker's request
Call(w) ==
    /\ workers[w].pc # "done"
    /\ \E s \in {Step(DB, workers[w])} :
           /\ tags' = s.db.tags
           /\ recipes' = s.db.recipes
           /\ through' = s.db.through
           /\ workers' = [workers EXCEPT ![w] = s.loc]
    /\ UNCHANGED <<last, started>>

NextConc ==
    \E w \in Workers :
        \/ StartCreate(w)
        \/ StartUpdate(w)
        \/ StartPartialUpdate(w)
        \/ Call(w)

SpecConc == Init /\ [][NextConc]_vars

----------------------------------------------------------------------------
(* Properties.  In Spec and SpecFields every step but Respond handles one *)
(* request: last' is that request with its outcome, the unprimed tables   *)
(* are the state before it and the primed tables the state after it.      *)

\* the Tag rows of a user whose names occur in a request's tag list
OwnTagsNamed(tagTable, user, names) ==
    {t \in tagTable : t.user = user /\ t.name \in Range(names)}

\* the relation's rows of one recipe, with their multiplicity
RowsOf(thr, rid) ==
    [row \in {x \in DOMAIN thr : x.recipe = rid} |-> thr[row]]

\* the Tag rows a request added: one for each listed name the user's
\* registry did not hold, none for any other name or user
CreatedOnlyMissing(user, names) ==
    /\ tags \subseteq tags'
    /\ \A t \in tags' \ tags : t.user = user /\ t.name \in Range(names)
    /\ \A n \in Range(names) :
        Cardinality({t \in tags' \ tags : t.name = n}) =
            IF \E t \in tags : t.user = user /\ t.name = n THEN 0 ELSE 1

\* C1: an update or partial update that carries a tags list L leaves the
\* recipe with exactly the owner's Tags named in L, one for every name of
\* L: Tags named otherwise are detached, the owner's existing Tag of a
\* listed name is reused and a missing one is created.
C1_UpdateReplacesTagSet ==
    [][(last'.op = "update" /\ last'.hasTags /\ last'.status = "ok") =>
        LET after == TagsOf(through', tags', last'.rid)
        IN  /\ after = OwnTagsNamed(tags', last'.user, last'.tags)
            /\ {t.name : t \in after} = Range(last'.tags)
            /\ \A t \in TagsOf(through, tags, last'.rid) :
                  t.name \notin Range(last'.tags) => t \notin after
            /\ OwnTagsNamed(tags, last'.user, last'.tags) \subseteq after
            /\ CreatedOnlyMissing(last'.user, last'.tags)]_vars

\* an update replaced the only recipe's tag by another one: the owner's
\* breakfast Tag is in the registry and attached to no recipe
C1_Witness ==
    /\ last.op = "update" /\ last.hasTags /\ last.status = "ok"
    /\ last.tags = <<"lunch">>
    /\ Cardinality(recipes) = 1
    /\ \E t \in tags :
        /\ t.user = last.user /\ t.name = "breakfast"
        /\ t \notin TagsOf(through, tags, last.rid)

\* C2: a create request by user U with tag list L adds exactly one Recipe,
\* owned by U, whose tag set is exactly U's Tags named in L, one for each
\* distinct name; a name U's registry holds resolves to the existing Tag
\* and a name it does not hold creates exactly one Tag of U.
C2_CreateAttachesTags ==
    [][(last'.op = "create" /\ last'.status = "ok") =>
        LET after == TagsOf(through', tags', last'.rid)
        IN  /\ recipes \subseteq recipes'
            /\ \E r \in recipes' :
                /\ recipes' \ recipes = {r}
                /\ r.id = last'.rid /\ r.user = last'.user
            /\ after = OwnTagsNamed(tags', last'.user, last'.tags)
            /\ Cardinality(after) = Cardinality(Range(last'.tags))
            /\ OwnTagsNamed(tags, last'.user, last'.tags) \subseteq after
            /\ CreatedOnlyMissing(last'.user, last'.tags)]_vars

\* a recipe was created with two tag names, one of which an older recipe of
\* the same user already carried
C2_Witness ==
    /\ last.op = "create" /\ last.status = "ok"
    /\ last.tags = <<"breakfast", "lunch">>
    /\ Cardinality(TagsOf(through, tags, last.rid)) = 2
    /\ \E r \in recipes :
        /\ r.id # last.rid /\ r.user = last.user
        /\ {t.name : t \in TagsOf(through, tags, r.id)} = {"breakfast"}

\* C3: after a create or update whose tag list repeats a name, the user has
\* exactly one Tag of each listed name and the recipe is joined to it by
\* exactly one row of the relation.
C3_RepeatedNameOnce ==
    (/\ last.op \in {"create", "update"} /\ last.hasTags
     /\ last.status = "ok"
     /\ \E i, j \in 1..Len(last.tags) : i # j /\ last.tags[i] = last.tags[j])
    => \A n \in Range(last.tags) :
        /\ Cardinality({t \in tags : t.user = last.user /\ t.name = n}) = 1
        /\ \A t \in tags :
            (t.user = last.user /\ t.name = n) =>
                CopiesIn([recipe |-> last.rid, tag |-> t.id], through) = 1

\* a request listing breakfast twice succeeded
C3_Witness ==
    /\ last.status = "ok" /\ last.hasTags
    /\ last.tags = <<"breakfast", "breakfast">>
    /\ Cardinality(TagsOf(through, tags, last.rid)) = 1

\* C4: a create request that carries no tags field is accepted and makes a
\* recipe with an empty tag set.
C4_CreateWithoutTagsAccepted ==
    (last.op = "create" /\ ~last.hasTags) =>
        /\ last.status = "ok"
        /\ \E r \in recipes : r.id = last.rid
        /\ TagsOf(through, tags, last.rid) = {}

\* C5: a partial update that carries no tags field leaves the Tag table
\* and every recipe's tag rows as they were, assigns the scalar fields it
\* carries and keeps the others.
C5_PatchWithoutTags ==
    [][(/\ last'.op = "update" /\ last'.method = "PATCH"
        /\ ~last'.hasTags /\ last'.status = "ok") =>
        /\ tags' = tags
        /\ through' = through
        /\ \E old \in recipes, new \in recipes' :
            /\ old.id = last'.rid /\ new.id = last'.rid
            /\ recipes' \ {new} = recipes \ {old}
            /\ new.user = old.user
            /\ new.title = IF "title" \in DOMAIN last'.data
                           THEN last'.data["title"] ELSE old.title
            /\ new.link = IF "link" \in DOMAIN last'.data
                          THEN last'.data["link"] ELSE old.link]_vars

\* a PATCH of the title alone, on a recipe that has a tag and another link
C5_Witness ==
    /\ last.op = "update" /\ last.method = "PATCH" /\ last.status = "ok"
    /\ ~last.hasTags
    /\ DOMAIN last.data = {"title"}
    /\ TagsOf(through, tags, last.rid) # {}
    /\ \E r \in recipes :
        r.id = last.rid /\ r.title = last.data["title"] /\ r.link # r.title

\* C6: no request deletes or changes a Tag row: every Tag of the state
\* before is in the state after with its id, user and name, and the rows
\* a request adds are the user's and carry names of its tag list.
C6_TagsPersist ==
    [][/\ tags \subseteq tags'
       /\ \A t \in tags' \ tags :
            t.user = last'.user /\ t.name \in Range(last'.tags)]_vars

\* an update with tags: [] succeeded and left Tags that no recipe carries
C6_Witness ==
    /\ last.op = "update" /\ last.hasTags /\ last.tags = <<>>
    /\ last.status = "ok"
    /\ tags # {}
    /\ through = EmptyBag

\* C7: an update that carries a list of several tags and fails leaves the
\* recipe's tag set as it was before the request, and the Tag table holds
\* no Tag the request created.
C7_FailedUpdateAtomic ==
    [][(/\ last'.op = "update" /\ last'.hasTags /\ Len(last'.tags) > 1
        /\ last'.status = "error") =>
        /\ TagsOf(through', tags', last'.rid) = TagsOf(through, tags, last'.rid)
        /\ tags' = tags]_vars

\* C8: no two Tag rows have the same user and name, whatever the
\* interleaving of the workers' requests.
C8_UniqueUserName ==
    \A t1, t2 \in tags :
        (t1.user = t2.user /\ t1.name = t2.name) => t1 = t2

\* two requests of one user raced to create the same Tag: one's insert
\* was refused and it looks the row up again
C8_Witness ==
    \E w \in Workers :
        /\ workers[w].pc = "reget"
        /\ \E t \in tags :
            t.user = workers[w].inst.user /\ t.name = Head(workers[w].todo)

\* C9: every Tag a recipe carries is owned by the recipe's owner, and a
\* request that succeeded joined its recipe to its own user's Tag of every
\* listed name, also when another user has a Tag of that name.
C9_TagsOwnedByRecipeOwner ==
    /\ \A r \in recipes : \A t \in TagsOf(through, tags, r.id) :
            t.user = r.user
    /\ \A row \in DOMAIN through : \E r \in recipes : r.id = row.recipe
    /\ (last.op \in {"create", "update"} /\ last.hasTags
        /\ last.status = "ok") =>
            \A n \in Range(last.tags) :
                \E t \in TagsOf(through, tags, last.rid) :
                    t.name = n /\ t.user = last.user

\* a request attached breakfast while the other user had a breakfast Tag
\* on a recipe of theirs
C9_Witness ==
    /\ last.status = "ok" /\ last.hasTags /\ "breakfast" \in Range(last.tags)
    /\ \E r \in recipes : \E t \in TagsOf(through, tags, r.id) :
        r.user # last.user /\ t.name = "breakfast"

\* C10: an update changes the tag rows of its own recipe only.
C10_OtherRecipesKeepTags ==
    [][last'.op = "update" =>
        \A r \in recipes :
            r.id # last'.rid =>
                RowsOf(through', r.id) = RowsOf(through, r.id)]_vars

\* an update cleared the tags of a recipe while another recipe of the same
\* user carries Tags
C10_Witness ==
    /\ last.op = "update" /\ last.hasTags /\ last.tags = <<>>
    /\ last.status = "ok"
    /\ \E r \in recipes :
        /\ r.id # last.rid /\ r.user = last.user
        /\ Cardinality(TagsOf(through, tags, r.id)) = 2

====
